---- MODULE Spec2Model ----
(***************************************************************************)
(* A model of download-photos.ts: the session orchestrator (main), the     *)
(* carousel walker (scrapePostForImages), the accessibility-tree search    *)
(* (findAccessibilityTreeNode) and the downloader (downloadImages); and of *)
(* the Gmail-driven variant's main (index.js) and processEmails.           *)
(*                                                                         *)
(* The browser page, the file system, the network and the human at the     *)
(* keyboard are the environment: what they answer is chosen with \E at the *)
(* step of the program that observes the answer.                           *)
(*                                                                         *)
(* The specifications share the variables:                                 *)
(*   Spec      one run of main                                             *)
(*   SpecWalkFair  Spec with the steps of the carousel loop run fairly     *)
(*   SpecAsync Spec on a page that may act on a click after it returned    *)
(*   SpecTree  findAccessibilityTreeNode applied to a tree and a predicate *)
(*   SpecName  the directory name downloadImages composes                  *)
(*   SpecWait  one wait-for-element call and its timeout                   *)
(*   SpecLoad  loadLinks applied to the content of links.json              *)
(*   SpecExif  successive calls of ensureExifDate on one file              *)
(*   SpecMail  one run of the Gmail-driven main and processEmails          *)
(*   SpecImg   successive calls of downloadImage on one output directory   *)
(*   SpecScroll  one call of fetchLinksFromHome, with time                 *)
(***************************************************************************)
EXTENDS Integers, Sequences, FiniteSets, TLC

\* ---------------------------------------------------------------- bounds
\* Number of descriptors in links.json.
MaxPosts == 2
\* Number of media items of a carousel.
MaxItems == 2
\* Cap on the length of mediaSources in one walk (the loop has none).
MaxSources == 3
\* Number of nodes of an accessibility tree.
MaxNodes == 3
\* Length of a subject (characters).
MaxSubjectLen == 3

\* ------------------------------------------------------------- variables
VARIABLES
  \* main
  pc,           \* position of main (and of the callee it awaits)
  linksFile,    \* "absent" | "present": links.json on disk
  links,        \* the descriptors loadLinks returned (mediaSources inside)
  idx,          \* index of the descriptor the for-loop is at (0: before it)
  exitStatus,   \* main's local exitStatus
  browser,      \* "open" | "closed" | "killed"
  acked,        \* a line on stdin was received by the listener of line 44
  proc,         \* "running" | "exited" | "crashed"
  exitCode,     \* the process's exit code once proc # "running"
  loggedIn,     \* loginSocialSchools has returned: the session is logged in
  \* the page and the walk in progress
  page,         \* the lightbox as the page shows it
  click,        \* "none" | "ok" | "rejected": the un-awaited click of line 197
  walk,         \* what the walk in progress did (counters of its steps)
  \* downloadImages
  k,            \* index into mediaSources of the source being downloaded
  files,        \* the files in the output directories: <<post, filename>>
  exifLog,      \* downloadImages, per media source handled for the post: was
                \* the file written, how did ensureExifDate end
  \* the console and the history of the run
  caught,       \* number of times the catch block of main ran
  fatal,        \* an exception was raised outside the for-loop
  walkSt,       \* per descriptor: "none" | "started" | "returned" | "raised"
  dlSt,         \* per descriptor: "none" | "started" | "done" | "raised"
  \* findAccessibilityTreeNode on its own
  tree, pred, searched, result,
  \* the directory name on its own
  date, messageId, subject, named, group,
  \* one wait for an element on its own
  waitStep,     \* which wait-for-element call is in progress
  elapsed,      \* milliseconds since the call started
  waitOutcome,  \* "pending" | "found" | "raised" ("idle": no wait)
  \* loadLinks on its own
  persisted,    \* the entries of links.json, as JSON.parse returns them
  loaded,       \* what loadLinks returned
  loadDone,     \* loadLinks has returned
  \* ensureExifDate on its own
  exifPc,       \* "call" | "read" | "write" | "unlink": position in the call
  meta,         \* the date tags of the file
  backup,       \* <file>_original exists
  exifDate,     \* the date passed in
  wrote,        \* exiftool.write has changed the file in the call in progress
  exifHist,     \* the file at the start, then the file after each call
  \* the Gmail-driven run: main of index.js and processEmails
  mailPc,             \* position of main and of processEmails
  force,              \* options.force
  listFile,           \* the processed-list file: its state and the ids in it
  processedEmailIds,  \* the in-memory set of processed email ids
  messagesToProcess,  \* what searchEmails returned (ids)
  mi,                 \* index of the email the loop is at
  imageUrls,          \* what scrapePostForImages returned for the email
  imgResults,         \* outcome of downloadImage for each url so far
  downloadSuccessCount,
  processedCount,
  mailSt,             \* per email id: how its processing ended
  writeSt,            \* per email id: the write of the list that followed
  allMessages,        \* what the Gmail search found, before the filter
  loadedIds,          \* the ids main loaded from the processed-list file
  listRead,           \* main has read the processed-list file
  \* successive calls of downloadImage (Gmail-driven variant) on one directory
  imgPc,              \* where the call is
  variant,            \* "ts" (index.ts) or "js" (part_000)
  outputDir,          \* the names of the files in the output directory
  datePrefix,         \* emailDate.toISOString().split('T')[0]
  filename,
  finalFilename,
  counter,
  imgCalls,           \* calls made so far
  overwritten,        \* the names of the existing files a call wrote over
  \* one call of fetchLinksFromHome
  scrollPc,           \* where the call is
  fade,               \* the end-of-feed marker (.fade) is in the page
  sinceStart,         \* Date.now() - startTime, in ms
  scrolled,           \* window.scrollBy was called
  feedPosts,          \* the posts the page has loaded
  homeFile            \* links.json: <<>> when absent, else <<number of entries>>

mainVars == <<pc, linksFile, links, idx, exitStatus, browser, acked, proc,
              exitCode, loggedIn, page, click, walk, k, files, exifLog, caught,
              fatal, walkSt, dlSt>>
treeVars == <<tree, pred, searched, result>>
nameVars == <<date, messageId, subject, named, group>>
waitVars == <<waitStep, elapsed, waitOutcome>>
loadVars == <<persisted, loaded, loadDone>>
exifVars == <<exifPc, meta, backup, exifDate, wrote, exifHist>>
mailVars == <<mailPc, force, listFile, processedEmailIds, messagesToProcess,
              mi, imageUrls, imgResults, downloadSuccessCount, processedCount,
              mailSt, writeSt, allMessages, loadedIds, listRead>>
imgVars == <<imgPc, variant, outputDir, datePrefix, filename, finalFilename,
             counter, imgCalls, overwritten>>
scrollVars == <<scrollPc, fade, sinceStart, scrolled, feedPosts, homeFile>>
vars == <<mainVars, treeVars, nameVars, waitVars, loadVars, exifVars, mailVars,
          imgVars, scrollVars>>

\* ------------------------------------------- accessibility-tree search
\* A serialized accessibility node: role, name, children (in document order).
Roles == {"button", "image"}
Names == {"IMG_1.jpg", "Sluiten"}

Node(role, name, children) ==
  [role |-> role, name |-> name, children |-> children]

\* n.name?.match(/\.(jpg|png|mp4|mov)/): the names that embed such a token.
NameMatchesMedia(name) ==
  name \in {"IMG_1.jpg", "foto.png", "film.mp4", "clip.mov"}

\* The predicates handed to the search. "imagePreview" is the one of line 190.
Preds == {"imagePreview", "isButton", "hasMediaName", "never", "always"}

Holds(p, n) ==
  CASE p = "imagePreview" -> n.role = "button" /\ NameMatchesMedia(n.name)
    [] p = "isButton"     -> n.role = "button"
    [] p = "hasMediaName" -> NameMatchesMedia(n.name)
    [] p = "never"        -> FALSE
    [] p = "always"       -> TRUE

\* The search's answer: <<>> is undefined, <<[path, node]>> is the node found;
\* path (the child indices from the root) stands for the object's identity.
Undefined == <<>>
Found(path, n) == <<[path |-> path, node |-> n]>>

RECURSIVE FindNode(_, _, _)
RECURSIVE FindInChildren(_, _, _, _)
\* Mutant: the children are searched before the node itself.
FindNodeChildrenFirst(t, p, path) ==
  LET r == FindInChildren(t.children, p, path, 1)
  IN  IF r # Undefined THEN r
      ELSE IF Holds(p, t) THEN Found(path, t) ELSE Undefined

FindNode(t, p, path) ==
  IF Holds(p, t) THEN Found(path, t)
  ELSE FindInChildren(t.children, p, path, 1)

FindInChildren(children, p, path, j) ==
  IF j > Len(children) THEN Undefined
  ELSE LET r == FindNode(children[j], p, Append(path, j))
       IN  IF r # Undefined THEN r
           ELSE FindInChildren(children, p, path, j + 1)

findAccessibilityTreeNode(t, p) == FindNode(t, p, <<>>)

\* All trees of exactly n nodes, and all forests (sequences of trees) of m nodes.
RECURSIVE TreesOf(_)
RECURSIVE ForestsOf(_)
TreesOf(n) ==
  IF n < 1 THEN {}
  ELSE { Node(r, nm, f) : r \in Roles, nm \in Names, f \in ForestsOf(n - 1) }

ForestsOf(m) ==
  IF m = 0 THEN {<<>>}
  ELSE UNION { { <<t>> \o f : t \in TreesOf(j), f \in ForestsOf(m - j) } :
               j \in 1..m }

AllTrees == UNION { TreesOf(n) : n \in 1..MaxNodes }

InitTree ==
  /\ tree \in AllTrees
  /\ pred \in Preds
  /\ searched = FALSE
  /\ result = Undefined

IdleTree ==
  /\ tree = Node("image", "Sluiten", <<>>)
  /\ pred = "never"
  /\ searched = FALSE
  /\ result = Undefined

SearchTree ==
  /\ ~searched
  /\ searched' = TRUE
  /\ result' = findAccessibilityTreeNode(tree, pred)
  /\ UNCHANGED <<tree, pred>>

\* ------------------------------------------------- the directory name
\* A string is a sequence of one-character strings.
DISALLOWED_PATH_CHARS == {"<", ">", ":", "\"", "/", "\\", "|", "?", "*"}
Whitespace == {" ", "\t"}

\* The characters a subject is drawn from: a letter, a space, two reserved.
SubjectChars == {"a", " ", "/", "?"}

RECURSIVE StringsUpTo(_)
StringsUpTo(n) ==
  IF n = 0 THEN {<<>>}
  ELSE LET shorter == StringsUpTo(n - 1)
       IN  shorter \cup { Append(s, c) : s \in shorter, c \in SubjectChars }

\* subject is optional (types: subject?: string); the template prints "undefined".
NoSubject == <<"undefined">>
Subjects == StringsUpTo(MaxSubjectLen) \cup {NoSubject}
SubjectText(s) ==
  IF s = NoSubject THEN <<"u", "n", "d", "e", "f", "i", "n", "e", "d">> ELSE s

\* link.date.toISOString().split("T")[0]
IsoDates == { <<"2", "0", "2", "5", "-", "0", "1", "-", "3", "1">> }
MessageIds == { <<"7">>, <<"1", "8", "f">> }

\* .replace(/ *$/, ''): the trailing run of spaces (U+0020 only) is removed.
RECURSIVE TrimTrailingSpaces(_)
TrimTrailingSpaces(s) ==
  IF s # <<>> /\ s[Len(s)] = " "
  THEN TrimTrailingSpaces(SubSeq(s, 1, Len(s) - 1))
  ELSE s

\* .replaceAll(DISALLOWED_PATH_CHARS, ' ')
ReplaceDisallowed(s) ==
  [i \in 1..Len(s) |-> IF s[i] \in DISALLOWED_PATH_CHARS THEN " " ELSE s[i]]

\* `${isoDateOnly} ${link.messageId} ${link.subject}`, trimmed, then replaced.
GroupName(d, m, s) ==
  ReplaceDisallowed(
    TrimTrailingSpaces(d \o <<" ">> \o m \o <<" ">> \o SubjectText(s)))

InitName ==
  /\ date \in IsoDates
  /\ messageId \in MessageIds
  /\ subject \in Subjects
  /\ named = FALSE
  /\ group = <<>>

IdleName ==
  /\ date = <<>>
  /\ messageId = <<>>
  /\ subject = <<>>
  /\ named = FALSE
  /\ group = <<>>

ComposeName ==
  /\ ~named
  /\ named' = TRUE
  /\ group' = GroupName(date, messageId, subject)
  /\ UNCHANGED <<date, messageId, subject>>

\* ------------------------------------------------- waiting for an element
\* The wait-for-element calls of loginSocialSchools and scrapePostForImages.
WaitSteps == {"loginMarker", "postBody", "lightbox", "mediaElem"}

\* waitForSelector('main .ss-chat', { timeout: 10000 })
PostBodyTimeout == 10000
\* waitForSelector('*[class*="LightBox"]', { timeout: 10000 })
LightboxTimeout == 10000
\* puppeteer's default timeout, in force where the call passes none:
\* locator(...).wait() of line 61 and lightbox.waitForSelector of line 215.
DefaultTimeout == 30000

\* Mutant: the calls that pass no timeout wait without one (0 disables it).
WaitTimeoutOnlyExplicit(step) ==
  CASE step = "postBody" -> PostBodyTimeout
    [] step = "lightbox" -> LightboxTimeout
    [] OTHER -> 0

\* The timeout in force for each call, in milliseconds; 0 means none.
WaitTimeout(step) ==
  CASE step = "loginMarker" -> DefaultTimeout
    [] step = "postBody" -> PostBodyTimeout
    [] step = "lightbox" -> LightboxTimeout
    [] step = "mediaElem" -> DefaultTimeout
    [] OTHER -> 0

\* The granularity of time in the model.
TickMs == PostBodyTimeout \div 10

InitWait ==
  /\ waitStep \in WaitSteps
  /\ elapsed = 0
  /\ waitOutcome = "pending"

IdleWait ==
  /\ waitStep = "none"
  /\ elapsed = 0
  /\ waitOutcome = "idle"

\* The element is in the page: the call resolves with its handle.
ElementAppears ==
  /\ waitOutcome = "pending"
  /\ waitOutcome' = "found"
  /\ UNCHANGED <<waitStep, elapsed>>
  /\ UNCHANGED <<mainVars, treeVars, nameVars, loadVars, exifVars, mailVars,
                 imgVars, scrollVars>>

\* Time passes while the call is pending and its timer has not fired.
WaitTick ==
  /\ waitOutcome = "pending"
  /\ LET t == WaitTimeout(waitStep)
     IN  /\ t = 0 \/ elapsed < t
         /\ elapsed' = IF t = 0 THEN elapsed
                       ELSE IF elapsed + TickMs > t THEN t
                       ELSE elapsed + TickMs
  /\ UNCHANGED <<waitStep, waitOutcome>>
  /\ UNCHANGED <<mainVars, treeVars, nameVars, loadVars, exifVars, mailVars,
                 imgVars, scrollVars>>

\* The timer fires: the call rejects with a TimeoutError.
TimeoutExpires ==
  /\ waitOutcome = "pending"
  /\ WaitTimeout(waitStep) # 0
  /\ elapsed >= WaitTimeout(waitStep)
  /\ waitOutcome' = "raised"
  /\ UNCHANGED <<waitStep, elapsed>>
  /\ UNCHANGED <<mainVars, treeVars, nameVars, loadVars, exifVars, mailVars,
                 imgVars, scrollVars>>

\* -------------------------------------------------------------- loadLinks
\* The date of a persisted entry: what JSON.stringify wrote for a Date (an
\* ISO string, or null for an invalid Date), or a date-only string.
NullDate == "null"
DateStrings ==
  { "2025-03-01T08:30:00.000Z", "1970-01-01T00:00:00.000Z", "2025-03-01",
    NullDate }

\* A Date: <<t>> with t its time (in seconds), <<>> for an invalid Date (NaN).
InvalidDate == <<>>

\* new Date(Date.parse(str))
ReviveDate(str) ==
  CASE str = "2025-03-01T08:30:00.000Z" -> <<1740817800>>
    [] str = "1970-01-01T00:00:00.000Z" -> <<0>>
    [] str = "2025-03-01" -> <<1740787200>>
    [] OTHER -> InvalidDate

\* date.toISOString() of a valid Date
ToISOString(d) ==
  CASE d = <<1740817800>> -> "2025-03-01T08:30:00.000Z"
    [] d = <<0>> -> "1970-01-01T00:00:00.000Z"
    [] d = <<1740787200>> -> "2025-03-01T00:00:00.000Z"

\* A persisted entry. subject is <<>> when the entry has none; mediaSources
\* is <<>> when the entry has no such property, <<list>> when it has one.
PersistedEntries ==
  [ messageId : {"m1", "m2"},
    href : {"/communityposts/1", "/communityposts/2"},
    date : DateStrings,
    subject : {<<>>, <<"Schoolreis">>},
    mediaSources : {<<>>, << <<"stale.jpg">> >>} ]

LinksFiles == UNION { [1..n -> PersistedEntries] : n \in 0..MaxPosts }

\* Mutant: loadLinks keeps the mediaSources the entry carried.
loadLinksKeepsSources(file) ==
  [i \in 1..Len(file) |->
     [file[i] EXCEPT !.date = ReviveDate(@),
                     !.mediaSources = IF @ = <<>> THEN <<>> ELSE @[1]]]

\* Lines 50-57: every entry, in place and in order, gets its date revived and
\* its mediaSources set to [].
loadLinks(file) ==
  [i \in 1..Len(file) |->
     [file[i] EXCEPT !.date = ReviveDate(@), !.mediaSources = <<>>]]

InitLoad ==
  /\ persisted \in LinksFiles
  /\ loaded = <<>>
  /\ loadDone = FALSE

IdleLoad ==
  /\ persisted = <<>>
  /\ loaded = <<>>
  /\ loadDone = FALSE

LoadFile ==
  /\ ~loadDone
  /\ loaded' = loadLinks(persisted)
  /\ loadDone' = TRUE
  /\ UNCHANGED persisted
  /\ UNCHANGED <<mainVars, treeVars, nameVars, waitVars, exifVars, mailVars,
                 imgVars, scrollVars>>

\* --------------------------------------------------------- ensureExifDate
\* Number of calls of ensureExifDate on one file.
MaxExifCalls == 2

\* The characters of the ISO strings of the dates of the model.
Chars(str) ==
  CASE str = "2025-03-01T08:30:00.000Z" ->
         <<"2", "0", "2", "5", "-", "0", "3", "-", "0", "1", "T", "0", "8", ":", "3", "0", ":", "0", "0", ".", "0", "0", "0", "Z">>
    [] str = "1970-01-01T00:00:00.000Z" ->
         <<"1", "9", "7", "0", "-", "0", "1", "-", "0", "1", "T", "0", "0", ":", "0", "0", ":", "0", "0", ".", "0", "0", "0", "Z">>

\* .replace(/T/, " "): the first T becomes a space.
RECURSIVE ReplaceFirstT(_)
ReplaceFirstT(s) ==
  IF s = <<>> THEN <<>>
  ELSE IF Head(s) = "T" THEN <<" ">> \o Tail(s)
  ELSE <<Head(s)>> \o ReplaceFirstT(Tail(s))

\* .replace(/\..+/, ""): the first dot that has a character after it is cut
\* off with everything after it.
RECURSIVE CutFraction(_)
CutFraction(s) ==
  IF Len(s) < 2 THEN s
  ELSE IF Head(s) = "." THEN <<>>
  ELSE <<Head(s)>> \o CutFraction(Tail(s))

\* Line 305: formattedDate
FormattedDate(d) == CutFraction(ReplaceFirstT(Chars(ToISOString(d))))

\* What exiftool stores for a date given with other separators: the
\* separators of the date part become colons.
ExifToolStore(s) ==
  [j \in 1..Len(s) |-> IF j <= 10 /\ s[j] = "-" THEN ":" ELSE s[j]]

\* A date tag of a file: <<>> when missing, <<value>> when present.
NoTag == <<>>
OldTag == <<<<"2", "0", "2", "4", ":", "1", "2", ":", "2", "4", " ", "1", "8", ":", "0", "0", ":", "0", "0">>>>
UnsetClockTag == <<<<"0", "0", "0", "0", ":", "0", "0", ":", "0", "0", " ", "0", "0", ":", "0", "0", ":", "0", "0">>>>
TagValues == {NoTag, OldTag, UnsetClockTag}
ExifDates == {<<1740817800>>, <<0>>}

\* Mutant: only a file with both tags counts as dated.
HasBothDates(m) == m.DateTimeOriginal # NoTag /\ m.CreateDate # NoTag

\* Line 300: metadata.DateTimeOriginal || metadata.CreateDate
HasExifDate(m) == m.DateTimeOriginal # NoTag \/ m.CreateDate # NoTag

InitExif ==
  /\ exifPc = "call"
  /\ meta \in [DateTimeOriginal : TagValues, CreateDate : TagValues]
  /\ backup = FALSE
  /\ exifDate \in ExifDates
  /\ wrote = FALSE
  /\ exifHist = <<[meta |-> meta, wrote |-> FALSE, outcome |-> "file"]>>

IdleExif ==
  /\ exifPc = "idle"
  /\ meta = [DateTimeOriginal |-> NoTag, CreateDate |-> NoTag]
  /\ backup = FALSE
  /\ exifDate = <<0>>
  /\ wrote = FALSE
  /\ exifHist = <<>>

\* The call ends: what it left of the file is recorded.
ExifEnd(m, w, outcome) ==
  /\ exifPc' = "call"
  /\ wrote' = FALSE
  /\ exifHist' = Append(exifHist, [meta |-> m, wrote |-> w, outcome |-> outcome])

\* Line 290: downloadImages calls ensureExifDate(filePath, link.date).
ExifCall ==
  /\ exifPc = "call"
  /\ Len(exifHist) <= MaxExifCalls
  /\ exifPc' = "read"
  /\ UNCHANGED <<meta, backup, exifDate, wrote, exifHist>>
  /\ UNCHANGED <<mainVars, treeVars, nameVars, waitVars, loadVars, mailVars,
                 imgVars, scrollVars>>

\* Lines 298-303: read the tags; return if the file has a date.
ExifRead ==
  /\ exifPc = "read"
  /\ \/ ExifEnd(meta, FALSE, "raised")
     \/ HasExifDate(meta) /\ ExifEnd(meta, FALSE, "returned")
     \/ ~HasExifDate(meta) /\ exifPc' = "write" /\ UNCHANGED <<wrote, exifHist>>
  /\ UNCHANGED <<meta, backup, exifDate>>
  /\ UNCHANGED <<mainVars, treeVars, nameVars, waitVars, loadVars, mailVars,
                 imgVars, scrollVars>>

\* Lines 305-309: exiftool.write of both tags; exiftool keeps the original
\* file as <file>_original unless it is set up to overwrite in place.
ExifWrite ==
  /\ exifPc = "write"
  /\ \/ ExifEnd(meta, FALSE, "raised") /\ UNCHANGED <<meta, backup>>
     \/ /\ meta' = [DateTimeOriginal |-> <<ExifToolStore(FormattedDate(exifDate))>>,
                     CreateDate |-> <<ExifToolStore(FormattedDate(exifDate))>>]
        /\ backup' \in {TRUE, FALSE}
        /\ wrote' = TRUE
        /\ exifPc' = "unlink"
        /\ UNCHANGED exifHist
  /\ UNCHANGED exifDate
  /\ UNCHANGED <<mainVars, treeVars, nameVars, waitVars, loadVars, mailVars,
                 imgVars, scrollVars>>

\* Line 310: fs.unlinkSync(`${filePath}_original`), which throws if it is missing.
ExifUnlink ==
  /\ exifPc = "unlink"
  /\ IF backup
     THEN backup' = FALSE /\ ExifEnd(meta, wrote, "returned")
     ELSE UNCHANGED backup /\ ExifEnd(meta, wrote, "raised")
  /\ UNCHANGED <<meta, exifDate>>
  /\ UNCHANGED <<mainVars, treeVars, nameVars, waitVars, loadVars, mailVars,
                 imgVars, scrollVars>>

\* ---------------------------------------- the Gmail-driven run (index.js)
\* Number of emails the search can find, and of image urls of a post.
MaxMails == 2
MaxImages == 2

MailIds == 1..MaxMails

\* The processed-list file: absent, unreadable as { processedIds: [...] },
\* or valid with the ids in it.
AbsentFile == [state |-> "absent", ids |-> {}]
InvalidFile == [state |-> "invalid", ids |-> {}]
ValidFile(ids) == [state |-> "valid", ids |-> ids]

\* The lists of distinct message ids a search can return.
MessageLists ==
  { m \in UNION { [1..n -> MailIds] : n \in 0..MaxMails } :
      \A i, j \in 1..Len(m) : i # j => m[i] # m[j] }

\* Mutant: the search returns every message it found.
RECURSIVE FilterNothing(_, _)
FilterNothing(msgs, processed) == msgs

\* messages.filter(msg => !processedEmailIds.has(msg.id))
RECURSIVE FilterNew(_, _)
FilterNew(messages, processed) ==
  IF messages = <<>> THEN <<>>
  ELSE IF Head(messages) \in processed THEN FilterNew(Tail(messages), processed)
  ELSE <<Head(messages)>> \o FilterNew(Tail(messages), processed)

InitMail ==
  /\ mailPc = "loadList"
  /\ force \in BOOLEAN
  /\ listFile \in {AbsentFile, InvalidFile} \cup
                  { ValidFile(ids) : ids \in SUBSET MailIds }
  /\ processedEmailIds = {}
  /\ messagesToProcess = <<>>
  /\ mi = 0
  /\ imageUrls = <<>>
  /\ imgResults = <<>>
  /\ downloadSuccessCount = 0
  /\ processedCount = 0
  /\ mailSt = [id \in MailIds |-> "none"]
  /\ writeSt = [id \in MailIds |-> "none"]
  /\ allMessages = <<>>
  /\ loadedIds = {}
  /\ listRead = FALSE

IdleMail ==
  /\ mailPc = "idle"
  /\ force = FALSE
  /\ listFile = AbsentFile
  /\ processedEmailIds = {}
  /\ messagesToProcess = <<>>
  /\ mi = 0
  /\ imageUrls = <<>>
  /\ imgResults = <<>>
  /\ downloadSuccessCount = 0
  /\ processedCount = 0
  /\ mailSt = <<>>
  /\ writeSt = <<>>
  /\ allMessages = <<>>
  /\ loadedIds = {}
  /\ listRead = FALSE

notMail == <<mainVars, treeVars, nameVars, waitVars, loadVars, exifVars,
            imgVars, scrollVars>>

\* The id of the email the loop is at.
messageHeader == messagesToProcess[mi]

\* How the processing of the email the loop is at ended.
MailEnds(outcome) ==
  /\ mailSt' = [mailSt EXCEPT ![messageHeader] = outcome]
  /\ mailPc' = "loop"

\* index.js lines 62-84: load the processed list, or initialise its file; a
\* write that fails here ends the run (catch of line 99, exit code 1).
MailLoadList ==
  /\ mailPc = "loadList"
  /\ \/ /\ force
        /\ mailPc' = "search"
        /\ UNCHANGED <<listFile, processedEmailIds, loadedIds, listRead>>
     \/ /\ ~force
        /\ listFile.state = "valid"
        /\ processedEmailIds' = listFile.ids
        /\ loadedIds' = listFile.ids
        /\ listRead' = TRUE
        /\ mailPc' = "search"
        /\ UNCHANGED listFile
     \/ /\ ~force
        /\ listFile' = ValidFile({})
        /\ listRead' = (listFile.state # "absent")
        /\ mailPc' = "search"
        /\ UNCHANGED <<processedEmailIds, loadedIds>>
     \/ /\ ~force
        /\ listFile' \in {listFile, InvalidFile}
        /\ listRead' = (listFile.state # "absent")
        /\ mailPc' = "failed"
        /\ UNCHANGED <<processedEmailIds, loadedIds>>
  /\ UNCHANGED <<force, messagesToProcess, mi, imageUrls, imgResults,
                 downloadSuccessCount, processedCount, mailSt, writeSt,
                 allMessages>>
  /\ UNCHANGED notMail

\* processEmails lines 350-357 with searchEmails (lines 17-79).
MailSearch ==
  /\ mailPc = "search"
  /\ \/ \E found \in MessageLists :
          LET new == IF force THEN found
                     ELSE FilterNew(found, processedEmailIds)
          IN  /\ allMessages' = found
              /\ messagesToProcess' = new
              /\ mailPc' = IF new = <<>> THEN "done" ELSE "loop"
     \/ mailPc' = "failed" /\ UNCHANGED <<allMessages, messagesToProcess>>
  /\ UNCHANGED <<force, listFile, processedEmailIds, mi, imageUrls, imgResults,
                 downloadSuccessCount, processedCount, mailSt, writeSt,
                 loadedIds, listRead>>
  /\ UNCHANGED notMail

\* Line 360: the for-of loop takes the next message, or ends (line 470).
MailNext ==
  /\ mailPc = "loop"
  /\ \/ /\ mi < Len(messagesToProcess)
        /\ mi' = mi + 1
        /\ mailPc' = "fetch"
     \/ /\ mi >= Len(messagesToProcess)
        /\ mi' = mi
        /\ mailPc' = "done"
  /\ imageUrls' = <<>>
  /\ imgResults' = <<>>
  /\ downloadSuccessCount' = 0
  /\ UNCHANGED <<force, listFile, processedEmailIds, messagesToProcess,
                 processedCount, mailSt, writeSt>>
  /\ UNCHANGED <<allMessages, loadedIds, listRead>>
  /\ UNCHANGED notMail

\* Lines 364-368: getEmailDetails, which answers null on an error.
MailFetch ==
  /\ mailPc = "fetch"
  /\ \/ mailPc' = "findLink" /\ UNCHANGED mailSt
     \/ MailEnds("fetchError")
  /\ UNCHANGED <<force, listFile, processedEmailIds, messagesToProcess, mi,
                 imageUrls, imgResults, downloadSuccessCount, processedCount,
                 writeSt>>
  /\ UNCHANGED <<allMessages, loadedIds, listRead>>
  /\ UNCHANGED notMail

\* Mutant: the id is added to the set and the file is left for later.
MarkOnly(id) ==
  /\ processedEmailIds' = processedEmailIds \cup {id}
  /\ UNCHANGED <<listFile, writeSt>>

\* processedEmailIds.add(id) followed by fs.writeJson of the whole set inside
\* its own try/catch (lines 397-403, 412-418, 449-458): a failed write is
\* logged, and may leave the file as it was or cut short.
MarkAndSave(id) ==
  /\ processedEmailIds' = processedEmailIds \cup {id}
  /\ \/ /\ listFile' = ValidFile(processedEmailIds \cup {id})
        /\ writeSt' = [writeSt EXCEPT ![id] = "ok"]
     \/ /\ listFile' \in {listFile, InvalidFile}
        /\ writeSt' = [writeSt EXCEPT ![id] = "failed"]

NoMark == UNCHANGED <<listFile, processedEmailIds, writeSt>>

\* Lines 375-385: findSocialSchoolsLink; without a link the id is added to the
\* set (not with --force) and nothing is written; an exception goes to the
\* catch of line 465.
MailFindLink ==
  /\ mailPc = "findLink"
  /\ \/ mailPc' = "scrape" /\ UNCHANGED mailSt /\ NoMark
     \/ /\ MailEnds("noLink")
        /\ processedEmailIds' =
             IF force THEN processedEmailIds
             ELSE processedEmailIds \cup {messageHeader}
        /\ UNCHANGED <<listFile, writeSt>>
     \/ MailEnds("unexpected") /\ NoMark
  /\ UNCHANGED <<force, messagesToProcess, mi, imageUrls, imgResults,
                 downloadSuccessCount, processedCount>>
  /\ UNCHANGED <<allMessages, loadedIds, listRead>>
  /\ UNCHANGED notMail

\* Lines 389-421: scrapePostForImages; a failure, and a post without images,
\* mark the email as processed (not with --force).
MailScrape ==
  /\ mailPc = "scrape"
  /\ \/ /\ MailEnds("scrapeFailed")
        /\ IF force THEN NoMark ELSE MarkAndSave(messageHeader)
        /\ UNCHANGED imageUrls
     \/ /\ MailEnds("noImages")
        /\ IF force THEN NoMark ELSE MarkAndSave(messageHeader)
        /\ UNCHANGED imageUrls
     \/ \E n \in 1..MaxImages :
          /\ imageUrls' = [j \in 1..n |-> j]
          /\ mailPc' = "download"
          /\ UNCHANGED mailSt
          /\ NoMark
  /\ UNCHANGED <<force, messagesToProcess, mi, imgResults,
                 downloadSuccessCount, processedCount>>
  /\ UNCHANGED <<allMessages, loadedIds, listRead>>
  /\ UNCHANGED notMail

\* Lines 424-432: downloadImage for the next url; a failure is logged.
MailDownloadOne ==
  /\ mailPc = "download"
  /\ Len(imgResults) < Len(imageUrls)
  /\ \/ /\ imgResults' = Append(imgResults, "ok")
        /\ downloadSuccessCount' = downloadSuccessCount + 1
     \/ /\ imgResults' = Append(imgResults, "failed")
        /\ UNCHANGED downloadSuccessCount
  /\ UNCHANGED <<mailPc, force, listFile, processedEmailIds, messagesToProcess,
                 mi, imageUrls, processedCount, mailSt, writeSt>>
  /\ UNCHANGED <<allMessages, loadedIds, listRead>>
  /\ UNCHANGED notMail

\* Line 433
processingSuccessful ==
  downloadSuccessCount = Len(imageUrls) /\ Len(imageUrls) > 0

\* Lines 433-463: after the last url, the processed list is updated when
\* every image was downloaded (not with --force).
MailUpdateList ==
  /\ mailPc = "download"
  /\ Len(imgResults) = Len(imageUrls)
  /\ MailEnds(IF \A j \in 1..Len(imgResults) : imgResults[j] = "ok"
              THEN "ok" ELSE "partial")
  /\ IF processingSuccessful /\ ~force
     THEN /\ MarkAndSave(messageHeader)
          /\ processedCount' = processedCount + 1
     ELSE NoMark /\ UNCHANGED processedCount
  /\ UNCHANGED <<force, messagesToProcess, mi, imageUrls, imgResults,
                 downloadSuccessCount>>
  /\ UNCHANGED <<allMessages, loadedIds, listRead>>
  /\ UNCHANGED notMail

\* ------------------------------------------------------- downloadImage
\* Calls of downloadImage on one directory.
MaxImgCalls == 2
\* The highest conflict counter among the files the directory starts with.
MaxCounter == 2

\* A file name is a sequence of characters; a date prefix and the value of
\* Date.now() are one token each.
DatePrefixes == {"2025-03-01", "2025-03-02"}
Timestamps == {"1740817800000"}

\* path.basename(new URL(url).pathname) for the urls of the model.
UrlBasenames ==
  { <<"a", ".", "j", "p", "g">>,
    <<"a", " ", "b", ".", "j", "p", "g">>,
    <<"a", "-", "(", "1", ")", ".", "j", "p", "g">>,
    <<"a">>,
    <<>> }

AllowedChars == {"a", "b", "j", "p", "g", "n", "1", "_", ".", "-"}

\* filename.replace(/[^a-zA-Z0-9_.-]/g, '_')
Sanitize(f) == [j \in 1..Len(f) |-> IF f[j] \in AllowedChars THEN f[j] ELSE "_"]

\* The position of the last dot of f, 0 if there is none.
RECURSIVE LastDot(_, _)
LastDot(f, j) ==
  IF j = 0 THEN 0
  ELSE IF f[j] = "." THEN j
  ELSE LastDot(f, j - 1)

\* path.extname(f): from the last dot to the end; empty when there is no
\* dot or the only dot is the first character.
ExtName(f) ==
  LET d == LastDot(f, Len(f))
  IN  IF d <= 1 THEN <<>> ELSE SubSeq(f, d, Len(f))

\* path.basename(f, ext): f without the suffix ext.
BaseName(f, ext) ==
  IF ext # <<>> /\ Len(f) > Len(ext)
     /\ SubSeq(f, Len(f) - Len(ext) + 1, Len(f)) = ext
  THEN SubSeq(f, 1, Len(f) - Len(ext))
  ELSE f

\* The decimal digits of n, as template literals print a number.
RECURSIVE Decimal(_)
Decimal(n) ==
  LET digit == <<"0", "1", "2", "3", "4", "5", "6", "7", "8", "9">>[(n % 10) + 1]
  IN  IF n < 10 THEN <<digit>> ELSE Decimal(n \div 10) \o <<digit>>

\* `${datePrefix}_${filename}`
PlainName(prefix, f) == <<prefix, "_">> \o f

\* `${datePrefix}_${name}-(${counter})${ext}`
CounterName(prefix, f, c) ==
  LET ext == ExtName(f)
  IN  <<prefix, "_">> \o BaseName(f, ext) \o <<"-", "(">> \o Decimal(c)
        \o <<")">> \o ext

\* The files a directory can hold before the first call: earlier downloads
\* of a.jpg of the first date, with and without a counter.
EarlierFiles ==
  { PlainName("2025-03-01", <<"a", ".", "j", "p", "g">>) } \cup
  { CounterName("2025-03-01", <<"a", ".", "j", "p", "g">>, c) : c \in 1..MaxCounter }

\* What the HEAD request for the content type answers.
HeadAnswers == {"image/png", "text/html", "fails"}

InitImg ==
  /\ imgPc = "idle"
  /\ variant \in {"ts", "js"}
  /\ outputDir \in SUBSET EarlierFiles
  /\ datePrefix = ""
  /\ filename = <<>>
  /\ finalFilename = <<>>
  /\ counter = 0
  /\ imgCalls = 0
  /\ overwritten = {}

IdleImg ==
  /\ imgPc = "off"
  /\ variant = "ts"
  /\ outputDir = {}
  /\ datePrefix = ""
  /\ filename = <<>>
  /\ finalFilename = <<>>
  /\ counter = 0
  /\ imgCalls = 0
  /\ overwritten = {}

notImg == <<mainVars, treeVars, nameVars, waitVars, loadVars, exifVars, mailVars,
           scrollVars>>

\* downloadImage is called: date prefix, base name of the url, sanitization
\* and the fallback name.
ImgCall ==
  /\ imgPc = "idle"
  /\ imgCalls < MaxImgCalls
  /\ \E prefix \in DatePrefixes, base \in UrlBasenames, now \in Timestamps :
       LET clean == Sanitize(base)
       IN  /\ datePrefix' = prefix
           /\ filename' = IF clean = <<>> THEN <<"image_", now>> ELSE clean
  /\ imgCalls' = imgCalls + 1
  /\ imgPc' = "extension"
  /\ UNCHANGED <<variant, outputDir, finalFilename, counter, overwritten>>
  /\ UNCHANGED notImg

\* A name without extension gets one: from the content type a HEAD request
\* answers, or .jpg. When the HEAD request fails the TypeScript variant takes
\* .jpg; the JavaScript variant reads .headers of the {} its catch returns,
\* which is undefined, and throws. Then the name with the date prefix.
ImgExtension ==
  /\ imgPc = "extension"
  /\ \E head \in HeadAnswers :
       LET threw == ExtName(filename) = <<>> /\ head = "fails" /\ variant = "js"
           f == IF ExtName(filename) # <<>> THEN filename
                ELSE IF head = "image/png" THEN filename \o <<".", "p", "n", "g">>
                ELSE filename \o <<".", "j", "p", "g">>
       IN  IF threw
           THEN /\ imgPc' = "idle"
                /\ UNCHANGED <<filename, finalFilename, counter>>
           ELSE /\ filename' = f
                /\ finalFilename' = PlainName(datePrefix, f)
                /\ counter' = 1
                /\ imgPc' = IF variant = "js" THEN "conflicts" ELSE "get"
  /\ UNCHANGED <<variant, outputDir, datePrefix, imgCalls, overwritten>>
  /\ UNCHANGED notImg

\* while (await fs.pathExists(filePath)) { ... counter++ }: JavaScript
\* variant only.
ImgConflict ==
  /\ imgPc = "conflicts"
  /\ IF finalFilename \in outputDir
     THEN /\ finalFilename' = CounterName(datePrefix, filename, counter)
          /\ counter' = counter + 1
          /\ UNCHANGED imgPc
     ELSE /\ imgPc' = "get"
          /\ UNCHANGED <<finalFilename, counter>>
  /\ UNCHANGED <<variant, outputDir, datePrefix, filename, imgCalls, overwritten>>
  /\ UNCHANGED notImg

\* The GET request, and fs.createWriteStream(filePath), which creates the
\* file or truncates the one that is there. A failed request throws before
\* the stream is opened.
ImgGet ==
  /\ imgPc = "get"
  /\ \/ /\ overwritten' = overwritten \cup ({finalFilename} \cap outputDir)
        /\ outputDir' = outputDir \cup {finalFilename}
     \/ UNCHANGED <<outputDir, overwritten>>
  /\ imgPc' = "idle"
  /\ UNCHANGED <<variant, datePrefix, filename, finalFilename, counter, imgCalls>>
  /\ UNCHANGED notImg

\* -------------------------------------------------- fetchLinksFromHome
\* The posts the home page can come to show.
MaxFeedPosts == 2

\* let timeout = 10000
ScrollTimeout == 10000
\* setTimeout(resolve, 300)
ScrollWait == 300
\* A timer fires at its delay or somewhat later.
ScrollLate == {0, ScrollWait \div 3}

\* Mutant: the clock stands still during the wait.
AfterWaitNoTime(t, late) == t

\* The time since the start after the wait of line 99.
AfterWait(t, late) == t + ScrollWait + late

\* Date.now() - startTime > timeout
TimedOut(t) == t > ScrollTimeout

InitScroll ==
  /\ scrollPc = "check"
  /\ fade \in BOOLEAN
  /\ sinceStart = 0
  /\ scrolled = FALSE
  /\ feedPosts \in 0..MaxFeedPosts
  /\ homeFile = <<>>

IdleScroll ==
  /\ scrollPc = "off"
  /\ fade = FALSE
  /\ sinceStart = 0
  /\ scrolled = FALSE
  /\ feedPosts = 0
  /\ homeFile = <<>>

notScroll == <<mainVars, treeVars, nameVars, waitVars, loadVars, exifVars, mailVars,
              imgVars>>

\* While the program scrolls or waits the page may load more posts, and at
\* the end of the feed it shows the marker.
PageLoadsMore ==
  /\ fade' \in {fade, TRUE}
  /\ feedPosts' \in {n \in feedPosts..MaxFeedPosts : fade => n = feedPosts}

\* Lines 84-89: is the marker there? A call on the page can throw.
ScrollCheck ==
  /\ scrollPc = "check"
  /\ \/ scrollPc' = (IF fade THEN "collect" ELSE "scroll")
     \/ scrollPc' = "failed"
  /\ UNCHANGED <<fade, sinceStart, scrolled, feedPosts, homeFile>>
  /\ UNCHANGED notScroll

\* Lines 92-96: scroll down by one window height.
ScrollDown ==
  /\ scrollPc = "scroll"
  /\ \/ /\ scrolled' = TRUE
        /\ PageLoadsMore
        /\ scrollPc' = "wait"
     \/ /\ scrollPc' = "failed"
        /\ UNCHANGED <<fade, scrolled, feedPosts>>
  /\ UNCHANGED <<sinceStart, homeFile>>
  /\ UNCHANGED notScroll

\* Line 99: wait 300 ms.
ScrollPause ==
  /\ scrollPc = "wait"
  /\ \E late \in ScrollLate : sinceStart' = AfterWait(sinceStart, late)
  /\ PageLoadsMore
  /\ scrollPc' = "timeout"
  /\ UNCHANGED <<scrolled, homeFile>>
  /\ UNCHANGED notScroll

\* Lines 102-106: past the timeout the loop ends with what is there.
ScrollTimeoutCheck ==
  /\ scrollPc = "timeout"
  /\ scrollPc' = (IF TimedOut(sinceStart) THEN "collect" ELSE "check")
  /\ UNCHANGED <<fade, sinceStart, scrolled, feedPosts, homeFile>>
  /\ UNCHANGED notScroll

\* Lines 112-171: the posts of the page are read, their dates parsed, and the
\* list, empty or not, is written to links.json.
ScrollCollect ==
  /\ scrollPc = "collect"
  /\ \/ /\ homeFile' = <<feedPosts>>
        /\ scrollPc' = "returned"
     \/ /\ scrollPc' = "failed"
        /\ UNCHANGED homeFile
  /\ UNCHANGED <<fade, sinceStart, scrolled, feedPosts>>
  /\ UNCHANGED notScroll

\* ------------------------------------------------------------ the page
\* A source URL: <<post, directory, basename>>. The items at positions 2j-1
\* and 2j of a carousel have the same basename in different directories.
Url(p, j) == <<p, j, (j + 1) \div 2>>
\* The empty string: what src reads as when the attribute is missing.
NoSrc == <<>>
\* path.basename(new URL(mediaSource).pathname)
Basename(u) == u[3]

\* A media element of the lightbox: its own src, and its nested <source>.
Item(src, hasSource, sourceSrc) ==
  [src |-> src, hasSource |-> hasSource, sourceSrc |-> sourceSrc]
NeitherItem == Item(NoSrc, FALSE, NoSrc)

\* What the page may show at position j of the carousel of post p.
ItemsAt(p, j) ==
  { Item(Url(p, j), FALSE, NoSrc),    \* <img src=...>
    Item(NoSrc, TRUE, Url(p, j)),     \* <video><source src=...></video>
    Item(NoSrc, TRUE, NoSrc),         \* <video><source></video>
    NeitherItem }                     \* neither

\* When the navigate-right control reads as disabled:
\*   "atLast"    while the last item is displayed;
\*   "pastLast"  once it was clicked while the last item was displayed;
\*   "never"     never (a click on the last item changes nothing).
Policies == {"atLast", "pastLast", "never"}

\* The lightbox: its buttons, n items, the position shown, the items shown
\* so far (the page reveals the item at a position when it first displays it),
\* and the clicks on the control the page has received and not yet acted on.
NoPage ==
  [open |-> FALSE, buttons |-> <<>>, n |-> 0, shown |-> 0, policy |-> "atLast",
   overrun |-> FALSE, items |-> <<>>, pending |-> 0]

OpenPage(buttons, n, policy, it) ==
  [open |-> TRUE, buttons |-> buttons, n |-> n, shown |-> 1, policy |-> policy,
   overrun |-> FALSE, items |-> <<it>>, pending |-> 0]

\* navRightButton.getProperty('disabled')
NavDisabled(pg) ==
  CASE pg.policy = "atLast"   -> pg.shown = pg.n
    [] pg.policy = "pastLast" -> pg.overrun
    [] pg.policy = "never"    -> FALSE

\* The page after navRightButton.click(); it is the item at the next position.
ClickNavRight(pg, it) ==
  IF NavDisabled(pg) THEN pg
  ELSE IF pg.shown < pg.n
       THEN [pg EXCEPT !.shown = @ + 1, !.items = Append(@, it)]
  ELSE IF pg.policy = "pastLast" THEN [pg EXCEPT !.overrun = TRUE]
  ELSE pg

\* The innerHTML of the lightbox's buttons, in document order.
ButtonLists ==
  { <<>>, <<"Close">>, <<"Close", "NavigateLeft", "NavigateRight">>,
    <<"navigateright", "NavigateRight">> }

\* !!html.match(/navigateright/i)
HtmlMatchesNavRight(html) == html \in {"NavigateRight", "navigateright"}

\* asyncFind: the index of the first item satisfying the predicate, 0 if none.
RECURSIVE AsyncFindFrom(_, _)
AsyncFindFrom(array, j) ==
  IF j > Len(array) THEN 0
  ELSE IF HtmlMatchesNavRight(array[j]) THEN j
  ELSE AsyncFindFrom(array, j + 1)

\* Mutant: the first button is taken for the navigate-right control.
asyncFindFirst(array) == 1

asyncFind(array) == AsyncFindFrom(array, 1)

\* Lines 221-229: <<src>> for the source read, <<>> when the code throws.
\* Mutant: an element with neither source form yields its (empty) src.
MediaSrcNoThrow(it) ==
  IF it.src # NoSrc THEN <<it.src>> ELSE <<it.sourceSrc>>

MediaSrc(it) ==
  IF it.src # NoSrc THEN <<it.src>>
  ELSE IF ~it.hasSource THEN <<>>
  ELSE <<it.sourceSrc>>

\* ------------------------------------------------------------------ main
finVars == <<browser, acked, proc, exitCode>>
others == <<treeVars, nameVars, waitVars, loadVars, exifVars, mailVars,
                 imgVars, scrollVars>>

\* A descriptor as loadLinks returns it: mediaSources is
\* empty; its date and subject play no part in the run and are left out.
Link(i) == [messageId |-> i, href |-> i, mediaSources |-> <<>>]

\* The counters of one walk; reads are the positions whose element was read.
NewWalk(i) ==
  [post |-> i, preview |-> "unknown", previewClicks |-> 0, lightboxWaits |-> 0,
   navClicks |-> 0, disabledReads |-> 0, reads |-> <<>>]

InitMain ==
  /\ pc = "login"
  /\ linksFile \in {"absent", "present"}
  /\ links = <<>>
  /\ idx = 0
  /\ exitStatus = 0
  /\ browser = "open"
  /\ acked = FALSE
  /\ proc = "running"
  /\ exitCode = 0
  /\ loggedIn = FALSE
  /\ page = NoPage
  /\ click = "none"
  /\ walk = NewWalk(0)
  /\ k = 0
  /\ files = {}
  /\ exifLog = <<>>
  /\ caught = 0
  /\ fatal = FALSE
  /\ walkSt = <<>>
  /\ dlSt = <<>>

IdleMain ==
  /\ InitMain
  /\ linksFile = "present"

\* The next statement of main runs; nothing was thrown.
Go(next) ==
  /\ pc' = next
  /\ UNCHANGED <<exitStatus, caught>>

\* Mutant: the catch block logs the error and leaves exitStatus alone.
CatchKeepsStatus ==
  /\ pc' = "finally"
  /\ exitStatus' = exitStatus
  /\ caught' = caught + 1

\* Lines 37-40: the one catch block of main, around everything up to the loop's end.
Catch ==
  /\ pc' = "finally"
  /\ exitStatus' = 1
  /\ caught' = caught + 1

NoRaise == UNCHANGED <<fatal, walkSt, dlSt>>

RaiseFatal ==
  /\ Catch
  /\ fatal' = TRUE
  /\ UNCHANGED <<walkSt, dlSt>>

\* Mutant: the failure of the walk is logged and the post is downloaded anyway.
RaiseInWalkThenDownload ==
  /\ pc' = "download"
  /\ exitStatus' = 1
  /\ caught' = caught + 1
  /\ walkSt' = [walkSt EXCEPT ![idx] = "raised"]
  /\ UNCHANGED <<fatal, dlSt>>

\* An exception of scrapePostForImages leaves the loop for the catch block.
RaiseInWalk ==
  /\ Catch
  /\ walkSt' = [walkSt EXCEPT ![idx] = "raised"]
  /\ UNCHANGED <<fatal, dlSt>>

RaiseInDownload ==
  /\ Catch
  /\ dlSt' = [dlSt EXCEPT ![idx] = "raised"]
  /\ UNCHANGED <<fatal, walkSt>>

\* Mutant: main goes on whether or not the login marker was found.
LoginUnchecked ==
  /\ pc = "login"
  /\ loggedIn' \in {TRUE, FALSE}
  /\ Go("pathExists")
  /\ NoRaise
  /\ UNCHANGED <<linksFile, links, idx, finVars, page, click, walk, k, files, exifLog,
                 others>>

\* Lines 21-22: browser.newPage() and loginSocialSchools(page), which returns
\* once the marker of the logged-in home page was found and throws otherwise.
Login ==
  /\ pc = "login"
  /\ \/ loggedIn' = TRUE /\ Go("pathExists") /\ NoRaise
     \/ RaiseFatal /\ UNCHANGED loggedIn
  /\ UNCHANGED <<linksFile, links, idx, finVars, page, click, walk, k, files, exifLog,
                 others>>

\* Line 24: pathExists("links.json"), which rethrows all but ENOENT.
PathExists ==
  /\ pc = "pathExists"
  /\ \/ linksFile = "present" /\ Go("loadLinks") /\ NoRaise
     \/ linksFile = "absent" /\ Go("fetchLinks") /\ NoRaise
     \/ RaiseFatal
  /\ UNCHANGED <<linksFile, links, idx, finVars, page, click, walk, k, files, exifLog,
                 loggedIn, others>>

\* Line 28: fetchLinksFromHome(page), which ends by writing links.json.
FetchLinksFromHome ==
  /\ pc = "fetchLinks"
  /\ \/ linksFile' = "present" /\ Go("loadLinks") /\ NoRaise
     \/ RaiseFatal /\ UNCHANGED linksFile
  /\ UNCHANGED <<links, idx, finVars, page, click, walk, k, files, exifLog, loggedIn, others>>

\* Line 31: loadLinks(); JSON.parse throws on a malformed file.
LoadLinks ==
  /\ pc = "loadLinks"
  /\ \/ \E n \in 0..MaxPosts :
          /\ links' = [i \in 1..n |-> Link(i)]
          /\ walkSt' = [i \in 1..n |-> "none"]
          /\ dlSt' = [i \in 1..n |-> "none"]
          /\ Go("loop")
          /\ UNCHANGED fatal
     \/ RaiseFatal /\ UNCHANGED links
  /\ UNCHANGED <<linksFile, idx, finVars, page, click, walk, k, files, exifLog, loggedIn, others>>

\* Line 33: the for-of loop takes the next descriptor, or ends.
ForNext ==
  /\ pc = "loop"
  /\ \/ idx < Len(links) /\ idx' = idx + 1 /\ Go("scrape")
     \/ idx >= Len(links) /\ idx' = idx /\ Go("finally")
  /\ NoRaise
  /\ UNCHANGED <<linksFile, links, finVars, page, click, walk, k, files, exifLog, loggedIn, others>>

\* ----------------------------------------------------- scrapePostForImages
\* Mutant: after the walk main goes on to the next descriptor at once.
ReturnFromWalkToLoop ==
  /\ Go("loop")
  /\ walkSt' = [walkSt EXCEPT ![idx] = "returned"]
  /\ UNCHANGED <<fatal, dlSt>>

\* scrapePostForImages returns to line 35 of main.
ReturnFromWalk ==
  /\ Go("download")
  /\ walkSt' = [walkSt EXCEPT ![idx] = "returned"]
  /\ UNCHANGED <<fatal, dlSt>>

\* Lines 175-181: page.goto and waitForSelector('main .ss-chat'), 10 s each.
ScrapeLoadPost ==
  /\ pc = "scrape"
  /\ page' = NoPage
  /\ click' = "none"
  /\ walk' = NewWalk(idx)
  /\ \/ /\ Go("snapshot")
        /\ walkSt' = [walkSt EXCEPT ![idx] = "started"]
        /\ UNCHANGED <<fatal, dlSt>>
     \/ RaiseInWalk
  /\ UNCHANGED <<linksFile, links, idx, finVars, k, files, exifLog, loggedIn, others>>

\* Mutant: a post without a preview button is a failure of the walk.
OnNoPreviewThrows ==
  /\ walk' = [walk EXCEPT !.preview = "none"]
  /\ RaiseInWalk

\* Lines 191-194: no preview button: warn and return.
OnNoPreview ==
  /\ walk' = [walk EXCEPT !.preview = "none"]
  /\ ReturnFromWalk

\* Lines 184-197: the snapshot, the search for the first preview button, and
\* the click on it, which is started and not awaited.
ScrapeFindPreview ==
  /\ pc = "snapshot"
  /\ \/ RaiseInWalk /\ UNCHANGED <<click, walk>>
     \/ \E snap \in AllTrees :
          LET r == findAccessibilityTreeNode(snap, "imagePreview")
          IN  \/ r = Undefined /\ OnNoPreview /\ UNCHANGED click
              \/ /\ r # Undefined
                 /\ walk' = [walk EXCEPT !.preview = "found"]
                 /\ RaiseInWalk
                 /\ UNCHANGED click
              \/ /\ r # Undefined
                 /\ \E c \in {"ok", "rejected"} : click' = c
                 /\ walk' = [walk EXCEPT !.preview = "found",
                                         !.previewClicks = @ + 1]
                 /\ Go("lightbox")
                 /\ NoRaise
  /\ UNCHANGED <<linksFile, links, idx, finVars, page, k, files, exifLog, loggedIn, others>>

\* The click of line 197 rejected and nothing handles the rejection: Node
\* (15 and later) ends the process with code 1; no finally block runs, and
\* puppeteer's exit hook kills the browser it launched.
UnhandledRejection ==
  /\ pc = "lightbox"
  /\ click = "rejected"
  /\ proc = "running"
  /\ proc' = "crashed"
  /\ exitCode' = 1
  /\ browser' = "killed"
  /\ pc' = "done"
  /\ UNCHANGED <<linksFile, links, idx, exitStatus, acked, page, click, walk,
                 k, files, exifLog, caught, fatal, walkSt, dlSt, loggedIn, others>>

\* Lines 199-209: wait for the lightbox (10 s), find the navigate-right button.
ScrapeWaitLightbox ==
  /\ pc = "lightbox"
  /\ walk' = [walk EXCEPT !.lightboxWaits = @ + 1]
  /\ \/ RaiseInWalk /\ UNCHANGED page
     \/ /\ click = "ok"
        /\ \E buttons \in ButtonLists, n \in 1..MaxItems, pol \in Policies,
              it \in ItemsAt(idx, 1) :
             /\ page' = OpenPage(buttons, n, pol, it)
             /\ IF asyncFind(buttons) = 0
                THEN RaiseInWalk
                ELSE Go("media") /\ NoRaise
  /\ UNCHANGED <<linksFile, links, idx, finVars, click, k, files, exifLog, loggedIn, others>>

\* Mutant: the new source is put in front of the list.
PushFront(mediaSources, src) == <<src>> \o mediaSources

\* Line 230: link.mediaSources.push(src)
Push(mediaSources, src) == Append(mediaSources, src)

\* Lines 213-230: wait for the media element, read its source, push it.
ScrapeReadMedia ==
  /\ pc = "media"
  /\ Len(links[idx].mediaSources) < MaxSources
  /\ \/ RaiseInWalk /\ UNCHANGED <<links, walk>>
     \/ LET src == MediaSrc(page.items[page.shown])
        IN  /\ walk' = [walk EXCEPT !.reads = Append(@, page.shown)]
            /\ IF src = <<>>
               THEN RaiseInWalk /\ UNCHANGED links
               ELSE /\ links' = [links EXCEPT
                                   ![idx].mediaSources = Push(@, src[1])]
                    /\ Go("clickRight")
                    /\ NoRaise
  /\ UNCHANGED <<linksFile, idx, finVars, page, click, k, files, exifLog, loggedIn, others>>

\* Lines 232-233: navRightButton.click(), awaited.
ScrapeClickRight ==
  /\ pc = "clickRight"
  /\ \/ RaiseInWalk /\ UNCHANGED <<page, walk>>
     \/ /\ \E it \in ItemsAt(idx, page.shown + 1) :
             page' = ClickNavRight(page, it)
        /\ walk' = [walk EXCEPT !.navClicks = @ + 1]
        /\ Go("checkDisabled")
        /\ NoRaise
  /\ UNCHANGED <<linksFile, links, idx, finVars, click, k, files, exifLog, loggedIn, others>>

\* Lines 232-233 on a page that acts on a click after the click has returned:
\* the click is delivered, the page is as it was.
ScrapeClickRightLate ==
  /\ pc = "clickRight"
  /\ page' = [page EXCEPT !.pending = @ + 1]
  /\ walk' = [walk EXCEPT !.navClicks = @ + 1]
  /\ Go("checkDisabled")
  /\ NoRaise
  /\ UNCHANGED <<linksFile, links, idx, finVars, click, k, files, exifLog, loggedIn, others>>

\* The page acts on a click it received: nothing in lines 213-234 waits for this.
PageUpdates ==
  /\ pc \in {"media", "clickRight", "checkDisabled"}
  /\ page.pending > 0
  /\ \E it \in ItemsAt(idx, page.shown + 1) :
       page' = [ClickNavRight(page, it) EXCEPT !.pending = @ - 1]
  /\ UNCHANGED pc
  /\ UNCHANGED <<exitStatus, caught>>
  /\ NoRaise
  /\ UNCHANGED <<linksFile, links, idx, finVars, click, walk, k, files, exifLog,
                 loggedIn, others>>

\* Mutant: the loop also ends after two iterations, whatever the control reads.
ScrapeCheckDisabledCapped ==
  /\ pc = "checkDisabled"
  /\ IF NavDisabled(page) \/ walk.navClicks >= 2
     THEN walk' = [walk EXCEPT !.disabledReads = @ + 1] /\ ReturnFromWalk
     ELSE Go("media") /\ NoRaise /\ UNCHANGED walk
  /\ UNCHANGED <<linksFile, links, idx, finVars, page, click, k, files, exifLog,
                 loggedIn, others>>

\* Line 234: the loop ends when the control reads as disabled.
ScrapeCheckDisabled ==
  /\ pc = "checkDisabled"
  /\ IF NavDisabled(page)
     THEN walk' = [walk EXCEPT !.disabledReads = @ + 1] /\ ReturnFromWalk
     ELSE Go("media") /\ NoRaise /\ UNCHANGED walk
  /\ UNCHANGED <<linksFile, links, idx, finVars, page, click, k, files, exifLog, loggedIn, others>>

\* ---------------------------------------------------------- downloadImages
\* Lines 252-262: the cookies, the directory of the post, the loop's start.
DownloadStart ==
  /\ pc = "download"
  /\ k' = 1
  /\ exifLog' = <<>>
  /\ dlSt' = [dlSt EXCEPT ![idx] = "started"]
  /\ Go("fetch")
  /\ UNCHANGED <<fatal, walkSt>>
  /\ UNCHANGED <<linksFile, links, idx, finVars, page, click, walk, files,
                 loggedIn, others>>

\* Mutant: a failure of the EXIF backfill ends downloadImages.
OnExifFailureRaises ==
  /\ RaiseInDownload
  /\ UNCHANGED k

\* Lines 291-293: the failure of ensureExifDate is logged, and the loop goes on
\* with the next media source.
OnExifFailure ==
  /\ k' = k + 1
  /\ Go("fetch")
  /\ NoRaise

\* Lines 264-293: one media source: the request, the file unless it exists,
\* and the EXIF backfill, whose failure is caught and logged (lines 289-293).
DownloadOne ==
  /\ pc = "fetch"
  /\ k <= Len(links[idx].mediaSources)
  /\ LET src == links[idx].mediaSources[k]
         f == <<idx, Basename(src)>>
     IN  \/ RaiseInDownload /\ UNCHANGED <<k, files, exifLog>>
         \/ /\ src # NoSrc
            /\ files' = files \cup {f}
            /\ \E outcome \in {"ok", "failed"} :
                 /\ exifLog' = Append(exifLog, [wrote |-> f \notin files,
                                                exif |-> outcome])
                 /\ IF outcome = "failed"
                    THEN OnExifFailure
                    ELSE k' = k + 1 /\ Go("fetch") /\ NoRaise
         \/ /\ src # NoSrc
            /\ f \notin files
            /\ files' \in {files, files \cup {f}}
            /\ RaiseInDownload
            /\ UNCHANGED <<k, exifLog>>
  /\ UNCHANGED <<linksFile, links, idx, finVars, page, click, walk, loggedIn, others>>

\* The for-loop of line 263 is over: downloadImages returns to the loop of main.
DownloadDone ==
  /\ pc = "fetch"
  /\ k > Len(links[idx].mediaSources)
  /\ dlSt' = [dlSt EXCEPT ![idx] = "done"]
  /\ Go("loop")
  /\ UNCHANGED <<fatal, walkSt>>
  /\ UNCHANGED <<linksFile, links, idx, finVars, page, click, walk, k, files, exifLog,
                 loggedIn, others>>

\* ------------------------------------------------------- the finally block
\* Lines 43-44: the prompt, and the listener for a line on stdin.
Prompt ==
  /\ pc = "finally"
  /\ Go("waitAck")
  /\ NoRaise
  /\ UNCHANGED <<linksFile, links, idx, finVars, page, click, walk, k, files, exifLog,
                 loggedIn, others>>

\* Line 44: the human presses Enter; the promise resolves.
ReceiveAck ==
  /\ pc = "waitAck"
  /\ acked' = TRUE
  /\ Go("close")
  /\ NoRaise
  /\ UNCHANGED <<linksFile, links, idx, browser, proc, exitCode, page, click,
                 walk, k, files, exifLog, loggedIn, others>>

\* Line 45: browser.close()
CloseBrowser ==
  /\ pc = "close"
  /\ browser' = "closed"
  /\ Go("exit")
  /\ NoRaise
  /\ UNCHANGED <<linksFile, links, idx, acked, proc, exitCode, page, click,
                 walk, k, files, exifLog, loggedIn, others>>

\* Line 46: process.exit(exitStatus)
Exit ==
  /\ pc = "exit"
  /\ proc' = "exited"
  /\ exitCode' = exitStatus
  /\ Go("done")
  /\ NoRaise
  /\ UNCHANGED <<linksFile, links, idx, browser, acked, page, click, walk, k,
                 files, exifLog, loggedIn, others>>

\* ------------------------------------------------------- specifications
Init == InitMain /\ IdleTree /\ IdleName /\ IdleWait /\ IdleLoad /\ IdleExif
  /\ IdleMail /\ IdleImg /\ IdleScroll

Next ==
  \/ Login
  \/ PathExists
  \/ FetchLinksFromHome
  \/ LoadLinks
  \/ ForNext
  \/ ScrapeLoadPost
  \/ ScrapeFindPreview
  \/ UnhandledRejection
  \/ ScrapeWaitLightbox
  \/ ScrapeReadMedia
  \/ ScrapeClickRight
  \/ ScrapeCheckDisabled
  \/ DownloadStart
  \/ DownloadOne
  \/ DownloadDone
  \/ Prompt
  \/ ReceiveAck
  \/ CloseBrowser
  \/ Exit

Spec == Init /\ [][Next]_vars

\* The event loop runs every step of the carousel loop that is ready to run.
SpecWalkFair ==
  /\ Spec
  /\ WF_vars(ScrapeReadMedia)
  /\ WF_vars(ScrapeClickRight)
  /\ WF_vars(ScrapeCheckDisabled)

\* One run of main on a page that may act on a click late.
NextAsync ==
  \/ Next
  \/ ScrapeClickRightLate
  \/ PageUpdates
SpecAsync == Init /\ [][NextAsync]_vars

TreeInit == IdleMain /\ InitTree /\ IdleName /\ IdleWait /\ IdleLoad /\ IdleExif
  /\ IdleMail /\ IdleImg /\ IdleScroll
TreeNext == SearchTree /\ UNCHANGED <<mainVars, nameVars, waitVars, loadVars, exifVars,
                                      mailVars, imgVars, scrollVars>>
SpecTree == TreeInit /\ [][TreeNext]_vars

NameInit == IdleMain /\ IdleTree /\ InitName /\ IdleWait /\ IdleLoad /\ IdleExif
  /\ IdleMail /\ IdleImg /\ IdleScroll
NameNext == ComposeName /\ UNCHANGED <<mainVars, treeVars, waitVars, loadVars, exifVars,
                                       mailVars, imgVars, scrollVars>>
SpecName == NameInit /\ [][NameNext]_vars

\* Time passes, and a timer that is due fires.
WaitInit == IdleMain /\ IdleTree /\ IdleName /\ InitWait /\ IdleLoad /\ IdleExif
  /\ IdleMail /\ IdleImg /\ IdleScroll
WaitNext ==
  \/ ElementAppears
  \/ WaitTick
  \/ TimeoutExpires
SpecWait ==
  /\ WaitInit
  /\ [][WaitNext]_vars
  /\ WF_vars(WaitTick)
  /\ WF_vars(TimeoutExpires)

LoadInit == IdleMain /\ IdleTree /\ IdleName /\ IdleWait /\ InitLoad /\ IdleExif
  /\ IdleMail /\ IdleImg /\ IdleScroll
LoadNext == LoadFile
SpecLoad == LoadInit /\ [][LoadNext]_vars

ExifInit ==
  IdleMain /\ IdleTree /\ IdleName /\ IdleWait /\ IdleLoad /\ InitExif
  /\ IdleMail /\ IdleImg /\ IdleScroll
ExifNext ==
  \/ ExifCall
  \/ ExifRead
  \/ ExifWrite
  \/ ExifUnlink
SpecExif == ExifInit /\ [][ExifNext]_vars

MailInit ==
  /\ IdleMain /\ IdleTree /\ IdleName /\ IdleWait /\ IdleLoad /\ IdleExif
  /\ InitMail /\ IdleImg /\ IdleScroll
MailNextStep ==
  \/ MailLoadList
  \/ MailSearch
  \/ MailNext
  \/ MailFetch
  \/ MailFindLink
  \/ MailScrape
  \/ MailDownloadOne
  \/ MailUpdateList
SpecMail == MailInit /\ [][MailNextStep]_vars

ImgInit ==
  /\ IdleMain /\ IdleTree /\ IdleName /\ IdleWait /\ IdleLoad /\ IdleExif
  /\ IdleMail /\ InitImg /\ IdleScroll
ImgNext ==
  \/ ImgCall
  \/ ImgExtension
  \/ ImgConflict
  \/ ImgGet
SpecImg == ImgInit /\ [][ImgNext]_vars

\* Every awaited call of fetchLinksFromHome returns or throws.
ScrollInit ==
  /\ IdleMain /\ IdleTree /\ IdleName /\ IdleWait /\ IdleLoad /\ IdleExif
  /\ IdleMail /\ IdleImg /\ InitScroll
ScrollNext ==
  \/ ScrollCheck
  \/ ScrollDown
  \/ ScrollPause
  \/ ScrollTimeoutCheck
  \/ ScrollCollect
SpecScroll ==
  /\ ScrollInit
  /\ [][ScrollNext]_vars
  /\ WF_vars(ScrollCheck)
  /\ WF_vars(ScrollDown)
  /\ WF_vars(ScrollPause)
  /\ WF_vars(ScrollTimeoutCheck)
  /\ WF_vars(ScrollCollect)

\* ================================================================ claims
Posts == 1..Len(links)
InFinally == pc \in {"finally", "waitAck", "close", "exit", "done"}
Failed(i) == walkSt[i] = "raised" \/ dlSt[i] = "raised"

\* C1 (as claimed): a walk that found the preview button, the lightbox and the
\* navigate-right control and returned has appended exactly the N sources of
\* the N carousel items, in carousel order, has clicked the control exactly N
\* times and has read it as disabled exactly once, at its return.
C1_WalkCollectsAllItems ==
  (pc = "download" /\ walk.preview = "found") =>
    LET ms == links[idx].mediaSources
    IN  /\ Len(ms) = page.n
        /\ walk.navClicks = page.n
        /\ walk.disabledReads = 1
        /\ Len(page.items) = page.n
        /\ ms = [j \in 1..page.n |-> MediaSrc(page.items[j])[1]]

\* C2 (as claimed): in a run that ended with exactly one post j failing, every
\* other post was walked and downloaded, and one failure was logged.
C2_PerPostIsolation ==
  (proc = "exited" /\ ~fatal /\ Cardinality({j \in Posts : Failed(j)}) = 1) =>
    /\ caught = 1
    /\ \A i \in Posts :
         ~Failed(i) => walkSt[i] = "returned" /\ dlSt[i] = "done"

\* The nodes of a tree in pre-order: the node, then its children's subtrees in
\* document order.
RECURSIVE PreOrder(_, _)
RECURSIVE PreOrderForest(_, _, _)
PreOrder(t, path) ==
  <<[path |-> path, node |-> t]>> \o PreOrderForest(t.children, path, 1)

PreOrderForest(children, path, j) ==
  IF j > Len(children) THEN <<>>
  ELSE PreOrder(children[j], Append(path, j))
         \o PreOrderForest(children, path, j + 1)

FirstInPreOrder(t, p) ==
  LET po == PreOrder(t, <<>>)
      hits == { j \in 1..Len(po) : Holds(p, po[j].node) }
  IN  IF hits = {} THEN Undefined
      ELSE <<po[CHOOSE j \in hits : \A h \in hits : j <= h]>>

C5_SourceResolution ==
  walk.post >= 1 =>
    LET p == walk.post
        ms == links[p].mediaSources
    IN  /\ Len(ms) <= Len(walk.reads)
        /\ \A j \in 1..Len(walk.reads) :
             LET it == page.items[walk.reads[j]]
             IN  IF it.src # NoSrc
                 THEN j <= Len(ms) /\ ms[j] = it.src
                 ELSE IF it.hasSource
                 THEN j <= Len(ms) /\ ms[j] = it.sourceSrc
                 ELSE /\ j = Len(walk.reads)
                      /\ Len(ms) = j - 1
                      /\ walkSt[p] = "raised"
                      /\ InFinally

\* C5 witness: the first element had only a nested source, the second had
\* neither, and the walk raised with one source appended.
C5_Witness ==
  /\ walk.post = idx
  /\ Len(walk.reads) = 2
  /\ Len(page.items) = 2
  /\ page.items[1].src = NoSrc
  /\ page.items[1].hasSource
  /\ page.items[2] = NeitherItem
  /\ walkSt[idx] = "raised"
  /\ Len(links[idx].mediaSources) = 1

C7_DirNameClean ==
  named =>
    /\ \A i \in 1..Len(group) : group[i] \notin DISALLOWED_PATH_CHARS
    /\ group # <<>> => group[Len(group)] \notin Whitespace

\* C8 (as claimed): the exit code is non-zero exactly when an exception was
\* raised outside the per-post loop.
C8_ExitStatusOnlyFatal ==
  proc = "exited" => (exitCode # 0 <=> fatal)

\* C9: after an exception outside the loop no post was walked or downloaded,
\* the exit status is 1, and the process exits with code 1 with the browser
\* closed.
C9_FatalEndsRun ==
  fatal =>
    /\ idx = 0
    /\ walk = NewWalk(0)
    /\ ~page.open
    /\ files = {}
    /\ \A i \in Posts : walkSt[i] = "none" /\ dlSt[i] = "none"
    /\ exitStatus = 1
    /\ InFinally
    /\ proc # "running" =>
         proc = "exited" /\ exitCode = 1 /\ browser = "closed"

\* C9 witness: links.json was missing, a step outside the loop raised, and the
\* process has exited.
C9_Witness ==
  /\ fatal
  /\ linksFile = "absent"
  /\ proc = "exited"
  /\ browser = "closed"

\* C10 (as claimed): the browser is closed, and the process ends, only after
\* the acknowledgement was received.
C10_EndOnlyAfterAck ==
  /\ browser # "open" => acked
  /\ proc # "running" => acked /\ browser = "closed"

\* C11: when the lightbox has opened and none of its buttons matches the
\* navigate-right marker, the walk has raised without reading a media element
\* or clicking, and the post's mediaSources is empty; one-item posts included.
C11_NoNavRightRaises ==
  (page.open /\ \A j \in 1..Len(page.buttons) :
                  ~HtmlMatchesNavRight(page.buttons[j])) =>
    LET p == walk.post
    IN  /\ walkSt[p] = "raised"
        /\ walk.reads = <<>>
        /\ walk.navClicks = 0
        /\ links[p].mediaSources = <<>>
        /\ InFinally

\* C11 witness: a one-item lightbox opened with a Close button only, and the
\* walk of the post has raised.
C11_Witness ==
  /\ page.open
  /\ page.buttons = <<"Close">>
  /\ page.n = 1
  /\ walkSt[walk.post] = "raised"
  /\ links[walk.post].mediaSources = <<>>

InCarouselLoop == pc \in {"media", "clickRight", "checkDisabled"}
\* The state and the sources of the post of the current walk.
WalkOutcome == IF walk.post \in Posts THEN walkSt[walk.post] ELSE "none"
WalkSources ==
  IF walk.post \in Posts THEN links[walk.post].mediaSources ELSE <<>>

\* C12: a walk that opened the lightbox has returned only with the control
\* read as disabled after at least one click; a walk whose control becomes
\* disabled after finitely many clicks ends (returned, or raised by a failing
\* step); a walk whose control never reads as disabled never returns, and
\* unless a step fails its mediaSources grows up to any bound (MaxSources).
C12_LoopExit ==
  /\ [](\A i \in Posts :
          (walkSt[i] = "returned" /\ walk.post = i /\ page.open) =>
            /\ NavDisabled(page)
            /\ walk.disabledReads = 1
            /\ walk.navClicks >= 1)
  /\ []((page.open /\ page.policy = "never") => WalkOutcome # "returned")
  /\ ((InCarouselLoop /\ page.policy # "never")
        ~> (WalkOutcome \in {"returned", "raised"}))
  /\ ((InCarouselLoop /\ page.policy = "never")
        ~> (WalkOutcome = "raised" \/ Len(WalkSources) = MaxSources))

\* C12 witness: the control never read as disabled, no step failed, and the
\* walk is still looping with MaxSources sources appended.
C12_Witness ==
  /\ InCarouselLoop
  /\ page.policy = "never"
  /\ walkSt[idx] = "started"
  /\ Len(links[idx].mediaSources) = MaxSources
  /\ walk.navClicks >= MaxSources - 1

\* The files of the output directory of post i.
FilesOf(i) == { f \in files : f[1] = i }

\* C13 (as claimed): once downloadImages has completed for a post, its
\* directory holds one file per collected source (n files for n sources),
\* each named by the basename of that source.
C13_OneFilePerSource ==
  \A i \in Posts :
    dlSt[i] = "done" =>
      LET ms == links[i].mediaSources
      IN  /\ \A j \in 1..Len(ms) : <<i, Basename(ms[j])>> \in files
          /\ Cardinality(FilesOf(i)) = Len(ms)

\* The descriptors whose walk or download is in progress.
Active == { i \in Posts : walkSt[i] = "started" \/ dlSt[i] = "started" }

\* C14: at most one descriptor is being walked or downloaded, and it is the
\* one the loop is at; a descriptor is not walked and downloaded at once, its
\* download starts only after its walk has returned; and no walk or download
\* has begun unless loginSocialSchools has returned.
C14_OneAtATime ==
  /\ Cardinality(Active) <= 1
  /\ \A i \in Active : i = idx
  /\ \A i \in Posts :
       /\ ~(walkSt[i] = "started" /\ dlSt[i] = "started")
       /\ dlSt[i] # "none" => walkSt[i] = "returned"
       /\ (walkSt[i] # "none" \/ dlSt[i] # "none") => loggedIn
  /\ pc \in {"scrape", "snapshot", "lightbox", "media", "clickRight",
             "checkDisabled", "download", "fetch"} => loggedIn

\* C14 witness: the second source of the second post is being downloaded
\* after the first post was walked and downloaded.
C14_Witness ==
  /\ loggedIn
  /\ Len(links) >= 2
  /\ dlSt[1] = "done"
  /\ walkSt[2] = "returned"
  /\ dlSt[2] = "started"
  /\ k = 2

IsPrefix(a, b) == Len(a) <= Len(b) /\ SubSeq(b, 1, Len(a)) = a
InWalk ==
  pc \in {"scrape", "snapshot", "lightbox", "media", "clickRight",
          "checkDisabled"}

\* C15: a descriptor's mediaSources is empty until its own walk has started;
\* a step changes it only inside the walk of that descriptor and only by
\* appending; no step of downloadImages or of another descriptor's processing
\* changes it; once loaded, the list of descriptors keeps its length and every
\* descriptor keeps its href and messageId.
C15_MediaSourcesFrame ==
  /\ [](\A i \in Posts : walkSt[i] = "none" => links[i].mediaSources = <<>>)
  /\ [][links # <<>> =>
         /\ Len(links') = Len(links)
         /\ \A i \in Posts :
              /\ links'[i].href = links[i].href
              /\ links'[i].messageId = links[i].messageId
              /\ IsPrefix(links[i].mediaSources, links'[i].mediaSources)
              /\ links'[i].mediaSources # links[i].mediaSources =>
                   /\ InWalk
                   /\ idx = i
                   /\ walk.post = i
                   /\ walkSt[i] = "started"
                   /\ dlSt[i] = "none"]_vars

\* C15 witness: the second post's walk has appended a source while the first
\* post keeps the two sources it had when its download was done.
C15_Witness ==
  /\ Len(links) >= 2
  /\ Len(links[1].mediaSources) = 2
  /\ dlSt[1] = "done"
  /\ walkSt[2] = "started"
  /\ Len(links[2].mediaSources) = 1

\* C16: each wait-for-element call of login and of the walk has a timeout
\* in force; the call is pending no longer than that, it raises only when the
\* timeout has passed, and it always ends, with the element or by raising.
C16_WaitsBounded ==
  /\ [](waitStep \in WaitSteps =>
          /\ WaitTimeout(waitStep) > 0
          /\ elapsed <= WaitTimeout(waitStep)
          /\ waitOutcome = "raised" => elapsed = WaitTimeout(waitStep))
  /\ (waitOutcome = "pending" ~> waitOutcome \in {"found", "raised"})

\* C16 witness: the media element of the lightbox never appeared and the call
\* without an explicit timeout has raised.
C16_Witness ==
  /\ waitStep = "mediaElem"
  /\ waitOutcome = "raised"
  /\ elapsed = DefaultTimeout

\* The date strings that JSON.stringify writes for a valid Date.
WrittenDates == {"2025-03-01T08:30:00.000Z", "1970-01-01T00:00:00.000Z"}

\* C17: loadLinks returns one descriptor per persisted entry, in file order,
\* with messageId, subject and href as persisted, mediaSources empty whatever
\* the entry carried, and the date revived: a Date whose ISO form is the
\* persisted string when that is one, an invalid Date for a null.
C17_LoadLinks ==
  loadDone =>
    /\ Len(loaded) = Len(persisted)
    /\ \A i \in 1..Len(persisted) :
         /\ loaded[i].messageId = persisted[i].messageId
         /\ loaded[i].subject = persisted[i].subject
         /\ loaded[i].href = persisted[i].href
         /\ loaded[i].mediaSources = <<>>
         /\ IF persisted[i].date = NullDate
            THEN loaded[i].date = InvalidDate
            ELSE /\ loaded[i].date # InvalidDate
                 /\ persisted[i].date \in WrittenDates =>
                      ToISOString(loaded[i].date) = persisted[i].date

\* C17 witness: two entries with different ids, the first persisted with a
\* non-empty mediaSources, were loaded.
C17_Witness ==
  /\ loadDone
  /\ Len(persisted) = 2
  /\ persisted[1].mediaSources # <<>>
  /\ persisted[1].messageId # persisted[2].messageId
  /\ loaded[1].mediaSources = <<>>
  /\ loaded[1].date = <<1740817800>>

\* C18: for a post whose walk raised, downloadImages was never entered: no
\* source of the post was fetched, and its directory holds no file, whatever
\* the walk had appended to mediaSources before it failed.
C18_NoDownloadAfterFailedWalk ==
  \A i \in Posts :
    walkSt[i] = "raised" =>
      /\ dlSt[i] = "none"
      /\ FilesOf(i) = {}
      /\ pc \notin {"download", "fetch"}

\* C18 witness: the walk of the second post raised after it had appended a
\* source; the first post's files are there, none of the second's.
C18_Witness ==
  /\ Len(links) >= 2
  /\ walkSt[2] = "raised"
  /\ Len(links[2].mediaSources) >= 1
  /\ FilesOf(1) # {}
  /\ FilesOf(2) = {}

\* The EXIF rendering "YYYY:MM:DD HH:MM:SS" (UTC) of the dates of the model.
ExifOf(d) ==
  CASE d = <<1740817800>> ->
         <<"2", "0", "2", "5", ":", "0", "3", ":", "0", "1", " ", "0", "8", ":", "3", "0", ":", "0", "0">>
    [] d = <<0>> ->
         <<"1", "9", "7", "0", ":", "0", "1", ":", "0", "1", " ", "0", "0", ":", "0", "0", ":", "0", "0">>

\* C19: a call of ensureExifDate on a file that has DateTimeOriginal or
\* CreateDate writes nothing and leaves the tags as they were; a call that
\* returns on a file with neither leaves both tags set to the date passed in;
\* and after a call that returned, a further call changes nothing.
C19_EnsureExifDate ==
  \A j \in 2..Len(exifHist) :
    LET before == exifHist[j - 1].meta
        h == exifHist[j]
    IN  /\ (before.DateTimeOriginal # NoTag \/ before.CreateDate # NoTag) =>
             h.meta = before /\ ~h.wrote
        /\ (before.DateTimeOriginal = NoTag /\ before.CreateDate = NoTag
              /\ h.outcome = "returned") =>
             /\ h.wrote
             /\ h.meta = [DateTimeOriginal |-> <<ExifOf(exifDate)>>,
                          CreateDate |-> <<ExifOf(exifDate)>>]
        /\ ~h.wrote => h.meta = before
        /\ (\E i \in 2..(j - 1) : exifHist[i].outcome = "returned") =>
             h.meta = before /\ ~h.wrote

\* C19 witness: the first call set both tags of a file that had neither, and
\* the second call returned without writing.
C19_Witness ==
  /\ Len(exifHist) = 3
  /\ exifHist[1].meta = [DateTimeOriginal |-> NoTag, CreateDate |-> NoTag]
  /\ exifHist[2].outcome = "returned"
  /\ exifHist[2].wrote
  /\ exifHist[3].outcome = "returned"
  /\ exifHist[3].meta = exifHist[2].meta

\* The email's post was scraped and every image found (if any) was downloaded.
Succeeded(st) == st \in {"ok", "noImages"}

\* C20: without --force, the step that ends the processing of an email whose
\* post was scraped and whose images were all downloaded adds its id to the
\* processed set and writes the whole set to the processed-list file, before
\* the loop takes the next email; unless that write fails, the file then
\* holds exactly the set. The id stays in the set, and in the file as long as
\* no write has failed.
C20_ProcessedSavedPerEmail ==
  /\ [](\A id \in MailIds :
          (mailPc # "idle" /\ ~force /\ Succeeded(mailSt[id])) =>
            /\ id \in processedEmailIds
            /\ writeSt[id] \in {"ok", "failed"}
            /\ (\A other \in MailIds : writeSt[other] # "failed") =>
                 listFile.state = "valid" /\ id \in listFile.ids)
  /\ [][\A id \in MailIds :
          (mailPc # "idle" /\ ~force /\ mailSt[id] = "none"
            /\ Succeeded(mailSt'[id]))
            => /\ mailPc \in {"download", "scrape"}
               /\ mailPc' = "loop"
               /\ mi' = mi
               /\ messagesToProcess[mi] = id
               /\ processedEmailIds' = processedEmailIds \cup {id}
               /\ writeSt'[id] \in {"ok", "failed"}
               /\ writeSt'[id] = "ok" =>
                    listFile' = ValidFile(processedEmailIds')]_vars

\* C20 witness: the first email was processed and saved, and the loop is at
\* the second email with the first id in the file.
C20_Witness ==
  /\ mailPc = "fetch"
  /\ ~force
  /\ mi = 2
  /\ mailSt[messagesToProcess[1]] = "ok"
  /\ writeSt[messagesToProcess[1]] = "ok"
  /\ listFile.state = "valid"
  /\ messagesToProcess[1] \in listFile.ids
  /\ messagesToProcess[2] \notin listFile.ids

\* C21 (as claimed): an email processed in the run whose id is in the
\* processed set was scraped with every image found (if any) downloaded.
C21_MarkedOnlyOnSuccess ==
  \A id \in MailIds :
    (mailPc # "idle" /\ mailSt[id] # "none" /\ id \in processedEmailIds) =>
      Succeeded(mailSt[id])

RangeOf(seq) == { seq[j] : j \in 1..Len(seq) }

\* C22: with --force the run does not read the processed-list file, never
\* changes the file or the processed set (which stays empty), and takes every
\* message the search found, in order, so that at the end each one was
\* processed; without --force no message whose id was loaded from the list is
\* taken or processed.
C22_ForceIgnoresList ==
  /\ []((mailPc # "idle" /\ force) =>
          /\ ~listRead
          /\ processedEmailIds = {}
          /\ mailPc \notin {"loadList", "search", "failed"} =>
               messagesToProcess = allMessages
          /\ mailPc = "done" =>
               \A id \in RangeOf(allMessages) : mailSt[id] # "none")
  /\ [][(mailPc # "idle" /\ force) =>
          listFile' = listFile /\ processedEmailIds' = processedEmailIds]_vars
  /\ []((mailPc # "idle" /\ ~force) =>
          \A id \in loadedIds :
            /\ id \notin RangeOf(messagesToProcess)
            /\ mailSt[id] = "none")

\* C22 witness: with --force the run has ended after processing two messages
\* whose ids are both in the untouched processed-list file.
C22_Witness ==
  /\ mailPc = "done"
  /\ force
  /\ Len(allMessages) = 2
  /\ listFile.state = "valid"
  /\ RangeOf(allMessages) \subseteq listFile.ids
  /\ \A id \in RangeOf(allMessages) : mailSt[id] = "ok"

\* C23 (as claimed): no call of downloadImage, of either variant, writes to a
\* path that existed before the call.
C23_NoOverwrite == overwritten = {}

\* C30 (as claimed): when processEmails has returned from a run without
\* --force, every id of the in-memory processed set is in the processed-list
\* file (no write of the list having failed).
C30_SetSavedAtReturn ==
  (mailPc = "done" /\ ~force /\ \A id \in MailIds : writeSt[id] # "failed") =>
    /\ listFile.state = "valid"
    /\ processedEmailIds \subseteq listFile.ids

\* C24: in downloadImages, a media source that is fetched gets an entry: the
\* file is written exactly when it did not exist (an existing file is left as
\* it is), and ensureExifDate is applied either way; a failure of
\* ensureExifDate ends nothing: the loop goes to the next source, nothing is
\* raised and the exit status stays; so when downloadImages has returned,
\* every media source of the post was handled and has its file.
C24_ExifFailureIsLogged ==
  /\ [][(pc = "fetch" /\ Len(exifLog') = Len(exifLog) + 1) =>
          LET e == exifLog'[Len(exifLog')]
              f == <<idx, Basename(links[idx].mediaSources[k])>>
          IN  /\ e.wrote = (f \notin files)
              /\ f \in files => files' = files
              /\ f \in files'
              /\ e.exif \in {"ok", "failed"}
              /\ pc' = "fetch"
              /\ k' = k + 1
              /\ exitStatus' = exitStatus
              /\ caught' = caught
              /\ dlSt' = dlSt]_vars
  /\ [](pc = "fetch" => Len(exifLog) = k - 1)
  /\ []((pc = "loop" /\ idx \in Posts /\ dlSt[idx] = "done") =>
          /\ Len(exifLog) = Len(links[idx].mediaSources)
          /\ \A j \in 1..Len(exifLog) :
               <<idx, Basename(links[idx].mediaSources[j])>> \in files)

\* C24 witness: downloadImages has returned for a post with two sources of
\* the same file name: the backfill of the first failed, the second found the
\* file there, did not write it, and had the backfill applied.
C24_Witness ==
  /\ pc = "loop"
  /\ idx \in Posts
  /\ dlSt[idx] = "done"
  /\ exifLog = << [wrote |-> TRUE, exif |-> "failed"],
                  [wrote |-> FALSE, exif |-> "ok"] >>

\* C25: the scroll loop of fetchLinksFromHome ends, and the call returns or
\* throws; a check that finds the marker is followed by no further scroll,
\* so a marker that is there from the start means no scroll at all; a loop
\* that ended did so on the marker or past the timeout, and no iteration
\* starts past the timeout; and when the call has returned, links.json
\* exists and holds the posts loaded so far, none included.
C25_ScrollLoopEnds ==
  /\ <>(scrollPc \in {"returned", "failed"})
  /\ [][(scrollPc = "check" /\ fade) =>
          scrollPc' \in {"collect", "failed"} /\ scrolled' = scrolled]_vars
  /\ [][scrollPc' = "wait" => (~fade /\ ~TimedOut(sinceStart))]_vars
  /\ [](scrollPc \in {"collect", "returned"} => (fade \/ TimedOut(sinceStart)))
  /\ []((scrollPc = "collect" /\ ~scrolled) => fade)
  /\ [](scrollPc = "returned" => homeFile = <<feedPosts>>)

\* C25 witness: the call has returned after the timeout, the marker never
\* having appeared, with a links.json of zero posts.
C25_Witness ==
  /\ scrollPc = "returned"
  /\ ~fade
  /\ TimedOut(sinceStart)
  /\ scrolled
  /\ homeFile = <<0>>

\* The positions 1..n of a sequence.
Consecutive(seq) == \A j \in 1..Len(seq) : seq[j] = j

\* C26 (as claimed): a walk of a carousel of two or more items whose control
\* is disabled exactly while the last item is displayed, once returned, has
\* read the last item and appended its source.
C26_LastItemCollected ==
  \A i \in Posts :
    (walkSt[i] = "returned" /\ walk.post = i /\ page.open
       /\ page.policy = "atLast" /\ page.n >= 2) =>
      /\ \E j \in 1..Len(walk.reads) : walk.reads[j] = page.n
      /\ Len(links[i].mediaSources) = page.n

\* C27 (as claimed): on a carousel whose control becomes disabled, the j-th
\* read of a walk reads the item at position j: no item is read twice and
\* none is passed over, also when the page acts on a click late.
C27_ReadsFollowDisplay ==
  (walk.post \in Posts /\ page.open /\ page.policy # "never") =>
    Consecutive(walk.reads)

\* C28 (as claimed): a run in which the click on the preview failed has gone
\* through main's catch block, and its process has ended only after the
\* acknowledgement and with the browser closed.
C28_ClickFailureIsRaised ==
  (click = "rejected" /\ proc # "running") =>
    /\ caught >= 1
    /\ exitStatus = 1
    /\ acked
    /\ browser = "closed"

\* C29 (as claimed): every element of every mediaSources is a non-empty URL.
C29_SourcesNonEmpty ==
  \A i \in Posts :
    \A j \in 1..Len(links[i].mediaSources) : links[i].mediaSources[j] # NoSrc

====
